---------------------------- MODULE Spec2Model ----------------------------
(***************************************************************************)
(* State-machine model of the PayPal webhook processor (src/index.py):     *)
(* lambda_handler, its three per-event handlers, the two sinks (the        *)
(* DynamoDB upsert of save_record and the Google Sheets append of          *)
(* append_to_google_sheet) and the process-wide cached Sheets handle of    *)
(* get_google_sheets_service.                                              *)
(*                                                                         *)
(* Strings that the code splits are sequences of atoms: an atom is either  *)
(* one of the two delimiters ":" and "|" or an indivisible run of other    *)
(* characters ("purpose", "email", ...).  Strings the code only carries    *)
(* around (identifiers, amounts, timestamps) are plain TLA+ strings.       *)
(***************************************************************************)
EXTENDS Naturals, Integers, Sequences, FiniteSets, TLC

VARIABLES
    event,      \* the request handed to lambda_handler
    pc,         \* position of the current invocation
    handler,    \* per-event handler the router dispatched to ("none" if none)
    exc,        \* exception propagating out of the try block (NoExc if none)
    parts,      \* the decoded custom-tag map of the current invocation
    pending,    \* the composed record / row waiting to be handed to the sinks
    todo,       \* sink calls the running handler still has to make, in order
    appends,    \* rows handed to request.execute() in this invocation
    upserts,    \* items handed to table.put_item() in this invocation
    sinkLog,    \* every sink call attempted in this invocation, with its outcome
    response,   \* the value lambda_handler returned (NoResponse before that)
    cached_google_sheets_service,  \* module-level global, index.py line 11
    builds,     \* number of handles build() has constructed in this process
    tpc,        \* per thread: position inside get_google_sheets_service
    tbuilt,     \* per thread: the handle its own build() call produced
    tret,       \* per thread: the value its last call returned
    tcalls,     \* per thread: number of calls started
    tag,        \* decoder harness: the custom tag under decoding
    decoded     \* decoder harness: result of the code's decoding of tag

vars == <<event, pc, handler, exc, parts, pending, todo, appends, upserts,
          sinkLog, response, cached_google_sheets_service, builds,
          tpc, tbuilt, tret, tcalls, tag, decoded>>

invVars == <<event, pc, handler, exc, parts, pending, todo, appends, upserts,
             sinkLog, response>>
threadVars == <<tpc, tbuilt, tret, tcalls>>
decVars == <<tag, decoded>>

(***************************************************************************)
(* Bounds of the model.                                                    *)
(***************************************************************************)
MaxTagLen == 5          \* atoms in a custom tag of the decoder harness
MaxHandlerTagLen == 3   \* atoms in a custom tag carried by a webhook event
NumThreads == 2         \* threads of one process calling get_google_sheets_service
MaxBuilds == 3          \* handles constructed by build() in one process
MaxCalls == 2           \* calls of get_google_sheets_service per thread

(***************************************************************************)
(* Python values.                                                          *)
(***************************************************************************)
Absent == "<absent>"    \* the key is not in the mapping
PyNone == "<None>"      \* Python's None
NoExc == [type |-> "none", msg |-> ""]
NoResponse == [statusCode |-> 0, key |-> "", text |-> ""]

\* dict.get(key, default) on a mapping whose value for key is v (or Absent).
Get(v, default) == IF v = Absent THEN default ELSE v

Str(a) == <<a>>

(***************************************************************************)
(* Custom-tag decoding, lines 91-102 (and the identical copies at 125-136  *)
(* and 177-188).                                                           *)
(***************************************************************************)
TagAtoms == {"purpose", "email", "user_name", ":", "|"}

RECURSIVE IndexOf(_, _, _)
\* Position of the first occurrence of sep in s at or after i, 0 if none.
IndexOf(s, sep, i) ==
    IF i > Len(s) THEN 0
    ELSE IF s[i] = sep THEN i
    ELSE IndexOf(s, sep, i + 1)

RECURSIVE Split(_, _)
\* str.split(sep): every occurrence of sep separates; never an empty list.
Split(s, sep) ==
    LET i == IndexOf(s, sep, 1)
    IN  IF i = 0 THEN <<s>>
        ELSE <<SubSeq(s, 1, i - 1)>> \o Split(SubSeq(s, i + 1, Len(s)), sep)

EmptyMap == [k \in {} |-> <<>>]

MapPut(m, k, v) == [x \in DOMAIN m \cup {k} |-> IF x = k THEN v ELSE m[x]]

\* parts.get(key, default)
MapGet(m, k, default) == IF k \in DOMAIN m THEN m[k] ELSE default

\* One iteration of the loop body, lines 93-98: subparts = segment.split(':');
\* the pair <<key, value>> when len(subparts) == 2, <<>> for a skipped segment.
SegmentParts(segment) ==
    LET subparts == Split(segment, ":")
    IN  IF Len(subparts) = 2 THEN subparts ELSE <<>>

RECURSIVE DecodeSegments(_, _, _)
DecodeSegments(segments, i, m) ==
    IF i > Len(segments) THEN m
    ELSE LET kv == SegmentParts(segments[i])
         IN  DecodeSegments(segments, i + 1,
                            IF kv = <<>> THEN m ELSE MapPut(m, kv[1], kv[2]))

\* parts = {}; for segment in custom_id.split('|'): ...
DecodeCustomId(custom_id) == DecodeSegments(Split(custom_id, "|"), 1, EmptyMap)

\* Lines 100-102: the three lookups with their sentinel defaults.  They sit
\* inside the loop in two handlers, which changes nothing: split() never
\* returns an empty list and the last iteration sees the final map.
Purpose(m) == MapGet(m, Str("purpose"), Str("Unknown_Purpose"))
UserEmail(m) == MapGet(m, Str("email"), Str("Unknown_Email"))
UserName(m) == MapGet(m, Str("user_name"), Str("Unknown_Name"))


(***************************************************************************)
(* Requests.  An event carries headers (only Content-Type is read) and a   *)
(* body: a JSON text (valid or not) or an already decoded mapping.  The    *)
(* resource is a mapping; a field the code reads with .get() or [] is      *)
(* either present with a value or Absent.                                  *)
(***************************************************************************)
\* All sequences over S of length at most n.
SeqsUpTo(S, n) == UNION {[1..k -> S] : k \in 0..n}

NoTag == [present |-> FALSE, val |-> <<>>]
TagFields(n) == {NoTag} \cup {[present |-> TRUE, val |-> t] : t \in SeqsUpTo(TagAtoms, n)}

NoAmount == [present |-> FALSE, total |-> Absent, currency |-> Absent]
Amounts ==
    {NoAmount} \cup
    [present : {TRUE}, total : {Absent, "50.00", "abc"}, currency : {Absent, "USD"}]

NoPayer == [email_address |-> Absent, given_name |-> Absent, surname |-> Absent]
Payers ==
    {NoPayer,
     [email_address |-> "payer@example.com", given_name |-> "Jane", surname |-> "Doe"],
     [email_address |-> Absent, given_name |-> "Jane", surname |-> Absent]}

NoUnits == [present |-> FALSE, units |-> <<>>]

\* The money fields of a purchase unit: its amount and the breakdown of its
\* first capture.
UnitMoney ==
    {[value |-> Absent, currency_code |-> Absent, paypal_fee |-> Absent, net_amount |-> Absent],
     [value |-> "50.00", currency_code |-> "EUR", paypal_fee |-> "1.75", net_amount |-> "48.25"]}

Unit(t, m) ==
    [custom_id |-> t, value |-> m.value, currency_code |-> m.currency_code,
     paypal_fee |-> m.paypal_fee, net_amount |-> m.net_amount]

EmptyResource ==
    [id |-> Absent, billing_agreement_id |-> Absent, create_time |-> Absent,
     custom_id |-> NoTag, custom |-> NoTag, amount |-> NoAmount, fee |-> Absent,
     purchase_units |-> NoUnits, payer |-> NoPayer]

SourceIds == {Absent, "ID-1"}
CreateTimes == {Absent, "2024-12-01T00:00:00Z"}
Fees == {Absent, "1.75", "abc"}

\* A resource of the subscription-created shape: the fields lines 85-89 read.
SubscriptionResource(i, c, t) ==
    [EmptyResource EXCEPT !.id = i, !.create_time = c, !.custom_id = t]

\* A resource of the payment-sale shape: the fields lines 117-123 read.
PaymentResource(i, a, f, t) ==
    [EmptyResource EXCEPT !.billing_agreement_id = i, !.amount = a, !.fee = f,
                          !.custom = t]

\* A resource of the order-approved shape: the fields lines 153-175 read.
\* purchase_units is absent, empty, or holds one unit.
OrderResource(i, u, p) ==
    [EmptyResource EXCEPT !.id = i, !.purchase_units = u, !.payer = p]

OneUnit(t, m) == [present |-> TRUE, units |-> <<Unit(t, m)>>]
NoUnitLists == {NoUnits, [present |-> TRUE, units |-> <<>>]}

KnownEventTypes ==
    {"BILLING.SUBSCRIPTION.CREATED", "PAYMENT.SALE.COMPLETED", "CHECKOUT.ORDER.APPROVED"}
OtherEventTypes == {"UNKNOWN.EVENT", "payment.sale.completed"}

ContentTypes == {Absent, "application/json", "text/plain"}

Body(t, r) == [event_type |-> t, has_resource |-> TRUE, resource |-> r]
NoBody == [event_type |-> Absent, has_resource |-> FALSE, resource |-> EmptyResource]

\* Bodies whose custom tag, where the shape has one, is absent or empty.
PlainBodies ==
    {Body("BILLING.SUBSCRIPTION.CREATED", SubscriptionResource(i, c, t)) :
        i \in SourceIds, c \in CreateTimes, t \in TagFields(0)}
    \cup {Body("PAYMENT.SALE.COMPLETED", PaymentResource(i, a, f, t)) :
            i \in SourceIds, a \in Amounts, f \in Fees, t \in TagFields(0)}
    \cup {Body("CHECKOUT.ORDER.APPROVED", OrderResource(i, u, p)) :
            i \in SourceIds, p \in Payers,
            u \in NoUnitLists \cup {OneUnit(t, m) : t \in TagFields(0), m \in UnitMoney}}
    \cup {Body(t, EmptyResource) : t \in OtherEventTypes \cup {Absent}}
    \cup {[event_type |-> t, has_resource |-> FALSE, resource |-> EmptyResource] :
            t \in KnownEventTypes \cup OtherEventTypes \cup {Absent}}

\* body_kind: "mapping" (already decoded), "json_mapping" (JSON text of a
\* mapping), "json_scalar" (JSON text of null, a number, true or false) and
\* "json_invalid" (a string json.loads rejects).
PlainEvents ==
    {[content_type |-> c, body_kind |-> k, body |-> b] :
        c \in ContentTypes, k \in {"mapping", "json_mapping"}, b \in PlainBodies}
    \cup {[content_type |-> c, body_kind |-> k, body |-> NoBody] :
            c \in ContentTypes, k \in {"json_scalar", "json_invalid"}}

\* An already decoded body under the accepted content type.
Accepted(b) == [content_type |-> "application/json", body_kind |-> "mapping", body |-> b]

NoEvent == [content_type |-> Absent, body_kind |-> "mapping", body |-> NoBody]


(***************************************************************************)
(* Exceptions and responses.                                               *)
(***************************************************************************)
Exc(t, m) == [type |-> t, msg |-> m]

\* isinstance(e, ValueError): json.JSONDecodeError subclasses ValueError.
IsValueError(e) == e.type \in {"ValueError", "JSONDecodeError"}

\* Faulty variant: every exception is answered as a validation failure.
ExceptResponseAll400(e) ==
    [statusCode |-> 400, key |-> "error", text |-> <<e.msg>>]

\* The two except clauses of lambda_handler.
ExceptResponse(e) ==
    IF IsValueError(e)
    THEN [statusCode |-> 400, key |-> "error", text |-> <<e.msg>>]
    ELSE [statusCode |-> 500, key |-> "error", text |-> <<"An unexpected error occurred.">>]

\* The fallback branch of the dispatch.
NotProcessedResponse(event_type) ==
    [statusCode |-> 200, key |-> "message",
     text |-> <<"Event type ", event_type, " not processed.">>]

\* The return after a handler came back.
ProcessedResponse(event_type) ==
    [statusCode |-> 200, key |-> "message",
     text |-> <<"Event type ", event_type, " processed successfully.">>]

(***************************************************************************)
(* Validation gate.                                                        *)
(***************************************************************************)
\* body = event['body']; if isinstance(body, str): body = json.loads(body)
\* The kind of the parsed body, or "error" when json.loads raises.
ParsedKind(e) ==
    CASE e.body_kind = "mapping" -> "mapping"
      [] e.body_kind = "json_mapping" -> "mapping"
      [] e.body_kind = "json_scalar" -> "scalar"
      [] e.body_kind = "json_invalid" -> "error"

validate_content_type(e) ==
    IF Get(e.content_type, PyNone) # "application/json"
    THEN Exc("ValueError", "Invalid Content-Type. Expected 'application/json'.")
    ELSE NoExc

\* `field not in body` raises TypeError on a body that is no container.
validate_event_body(kind, body) ==
    IF kind = "scalar"
    THEN Exc("TypeError", "argument of type 'NoneType' is not iterable")
    ELSE IF body.event_type = Absent
    THEN Exc("ValueError", "Missing required field: event_type")
    ELSE IF ~body.has_resource
    THEN Exc("ValueError", "Missing required field: resource")
    ELSE NoExc

\* Lines 222-228 in order: parse, content type, required fields.
Gate(e) ==
    LET kind == ParsedKind(e)
    IN  IF kind = "error" THEN Exc("JSONDecodeError", "Expecting value")
        ELSE IF validate_content_type(e) # NoExc THEN validate_content_type(e)
        ELSE validate_event_body(kind, e.body)

\* Faulty variant: an event type the chain does not name falls into the
\* subscription handler.
HandlerForCatchAll(event_type) ==
    CASE event_type = "PAYMENT.SALE.COMPLETED" -> "payment"
      [] event_type = "CHECKOUT.ORDER.APPROVED" -> "order"
      [] OTHER -> "subscription"

\* The if / elif chain of the dispatch: exact string match.
HandlerFor(event_type) ==
    CASE event_type = "BILLING.SUBSCRIPTION.CREATED" -> "subscription"
      [] event_type = "PAYMENT.SALE.COMPLETED" -> "payment"
      [] event_type = "CHECKOUT.ORDER.APPROVED" -> "order"
      [] OTHER -> "none"

(***************************************************************************)
(* Per-event handlers: what each computes before it calls a sink.          *)
(***************************************************************************)
NoRecord == [kind |-> "none"]
NoPending == [key |-> PyNone, data_type |-> "", record_data |-> NoRecord, row |-> <<>>]

Outcome(e, m, k, dt, rd, row) ==
    [exc |-> e, parts |-> m,
     pending |-> [key |-> k, data_type |-> dt, record_data |-> rd, row |-> row]]

Failed(e) == [exc |-> e, parts |-> EmptyMap, pending |-> NoPending]

\* Faulty variant: any string is taken for a number.
FloatParsesAnything(s) == TRUE

\* float(s) succeeds.
FloatParses(s) == s \in {"50.00", "1.75", "0.00", "48.25"}

\* float(s) in hundredths, for the strings float() accepts.
FloatOf(s) ==
    CASE s = "50.00" -> 5000
      [] s = "1.75" -> 175
      [] s = "48.25" -> 4825
      [] OTHER -> 0

process_subscription_created(resource) ==
    LET billing_agreement_id == Get(resource.id, PyNone)
        subscription_create_time == Get(resource.create_time, PyNone)
        custom_id == IF resource.custom_id.present THEN resource.custom_id.val ELSE <<>>
        m == DecodeCustomId(custom_id)
        subscriber_info ==
            [user_name |-> UserName(m), purpose |-> Purpose(m),
             user_email |-> UserEmail(m), create_time |-> subscription_create_time]
    IN  Outcome(NoExc, m, billing_agreement_id, "subscription", subscriber_info, <<>>)

process_subscription_payment(resource) ==
    LET billing_agreement_id == Get(resource.billing_agreement_id, PyNone)
        amount_value == resource.amount.total
        amount_currency == resource.amount.currency
        transaction_fee == Get(resource.fee, "0.00")
        custom_id == IF resource.custom.present THEN resource.custom.val ELSE <<>>
        m == DecodeCustomId(custom_id)
        payment_info ==
            [purpose |-> Purpose(m), user_name |-> UserName(m),
             user_email |-> UserEmail(m), amount_value |-> amount_value,
             amount_currency |-> amount_currency,
             transaction_fee |-> transaction_fee,
             net_amount |-> FloatOf(amount_value) - FloatOf(transaction_fee),
             create_time |-> Get(resource.create_time, "Unknown_Time")]
    IN  IF ~resource.amount.present THEN Failed(Exc("KeyError", "'amount'"))
        ELSE IF amount_value = Absent THEN Failed(Exc("KeyError", "'total'"))
        ELSE IF amount_currency = Absent THEN Failed(Exc("KeyError", "'currency'"))
        ELSE IF ~FloatParses(amount_value) \/ ~FloatParses(transaction_fee)
        THEN Failed(Exc("ValueError", "could not convert string to float"))
        ELSE Outcome(NoExc, m, billing_agreement_id, "payment", payment_info, <<>>)

process_order_approved(resource) ==
    LET id == Get(resource.id, "Unknown_ID")
        purchase_units == IF resource.purchase_units.present
                          THEN resource.purchase_units.units ELSE <<>>
        purchase_unit == purchase_units[1]
        amount_value == Get(purchase_unit.value, "0.00")
        amount_currency == Get(purchase_unit.currency_code, "USD")
        payer_email == Get(resource.payer.email_address, "Unknown_Email")
        payer_name == <<Get(resource.payer.given_name, "Unknown_Name"), " ",
                        Get(resource.payer.surname, "Unknown_Surname")>>
        payment_fee == Get(purchase_unit.paypal_fee, "0.00")
        net_amount == Get(purchase_unit.net_amount, "0.00")
        m == DecodeCustomId(purchase_unit.custom_id.val)
        create_time == Get(resource.create_time, "Unknown_Time")
        payment_info_gs ==
            <<id, Purpose(m), payer_name, payer_email, amount_value,
              amount_currency, create_time>>
        payment_info_db ==
            [purpose |-> Purpose(m), user_name |-> UserName(m),
             payer_name |-> payer_name, user_email |-> UserEmail(m),
             payer_email |-> payer_email, amount_value |-> amount_value,
             amount_currency |-> amount_currency, transaction_fee |-> payment_fee,
             net_amount |-> net_amount, create_time |-> create_time]
    IN  IF purchase_units = <<>>
        THEN Failed(Exc("ValueError", "Missing purchase_units in resource."))
        ELSE IF ~purchase_unit.custom_id.present
        \* custom_id = purchase_unit.get("custom_id") is None; None.split raises
        THEN Failed(Exc("AttributeError", "'NoneType' object has no attribute 'split'"))
        ELSE Outcome(NoExc, m, id, "payment", payment_info_db, payment_info_gs)

\* Faulty variant: the order-approved handler writes the record first.
SinkPlanUpsertFirst(h) ==
    IF h = "order" THEN <<"upsert", "append">> ELSE <<"upsert">>

\* The sink calls a handler makes once its record is composed, in order:
\* save_record alone (lines 111, 149) or append_to_google_sheet then
\* save_record (lines 213-214).
SinkPlan(h) ==
    IF h = "order" THEN <<"append", "upsert">> ELSE <<"upsert">>

\* item = {'id': ..., 'data_type': ..., **record_data}
Item(billing_agreement_id, data_type, record_data) ==
    [k \in {"id", "data_type"} \cup DOMAIN record_data |->
        IF k \in DOMAIN record_data THEN record_data[k]
        ELSE IF k = "id" THEN billing_agreement_id ELSE data_type]

(***************************************************************************)
(* The cached Sheets handle.  A handle is the number of the build() call   *)
(* that constructed it; NoHandle is the None the global starts with.       *)
(***************************************************************************)
NoHandle == 0

\* Faulty variant: the cache test never succeeds.
CacheHitNever(cache) == FALSE

\* if cached_google_sheets_service is not None
CacheHit(cache) == cache # NoHandle

\* Faulty variant: a ValueError of the Sheets client leaves unwrapped.
AppendExcUnwrapped(cause) ==
    IF cause = "ValueError"
    THEN Exc("ValueError", "Invalid data provided for appending to Google Sheets.")
    ELSE Exc("RuntimeError", "Failed to append data to Google Sheets.")

\* The two except clauses of append_to_google_sheet: whatever is raised inside
\* the try block (the RuntimeError of get_google_sheets_service included)
\* leaves as a RuntimeError.
AppendExc(cause) ==
    IF cause = "ValueError"
    THEN Exc("RuntimeError", "Invalid data provided for appending to Google Sheets.")
    ELSE Exc("RuntimeError", "Failed to append data to Google Sheets.")


(***************************************************************************)
(* Initial state: a freshly loaded module, no invocation running.          *)
(***************************************************************************)
Threads == 1..NumThreads

NoReturn == [kind |-> "none", handle |-> NoHandle]

InvocationInit ==
    /\ event = NoEvent
    /\ pc = "idle"
    /\ handler = "none"
    /\ exc = NoExc
    /\ parts = EmptyMap
    /\ pending = NoPending
    /\ todo = <<>>
    /\ appends = <<>>
    /\ upserts = <<>>
    /\ sinkLog = <<>>
    /\ response = NoResponse

ProcessInit ==
    /\ cached_google_sheets_service = NoHandle
    /\ builds = 0
    /\ tpc = [t \in Threads |-> "idle"]
    /\ tbuilt = [t \in Threads |-> NoHandle]
    /\ tret = [t \in Threads |-> NoReturn]
    /\ tcalls = [t \in Threads |-> 0]

Undecoded == [done |-> FALSE, map |-> EmptyMap]

Init ==
    /\ InvocationInit
    /\ ProcessInit
    /\ tag = <<>>
    /\ decoded = Undecoded

(***************************************************************************)
(* One invocation of lambda_handler, step by step.                         *)
(***************************************************************************)
\* The runtime hands the next request to lambda_handler: any content type and
\* body kind with a plain body, or an accepted request of one of the three
\* shapes carrying a custom tag of up to MaxHandlerTagLen atoms.
Receive ==
    /\ pc = "idle"
    /\ \/ \E e \in PlainEvents : event' = e
       \/ \E i \in SourceIds, c \in CreateTimes, t \in TagFields(MaxHandlerTagLen) :
             event' = Accepted(Body("BILLING.SUBSCRIPTION.CREATED",
                                    SubscriptionResource(i, c, t)))
       \/ \E i \in SourceIds, a \in Amounts, f \in Fees, t \in TagFields(MaxHandlerTagLen) :
             event' = Accepted(Body("PAYMENT.SALE.COMPLETED",
                                    PaymentResource(i, a, f, t)))
       \/ \E i \in SourceIds, p \in Payers, t \in TagFields(MaxHandlerTagLen), m \in UnitMoney :
             event' = Accepted(Body("CHECKOUT.ORDER.APPROVED",
                                    OrderResource(i, OneUnit(t, m), p)))
    /\ pc' = "validate"
    /\ UNCHANGED <<handler, exc, parts, pending, todo, appends, upserts, sinkLog,
                   response, cached_google_sheets_service, builds>>
    /\ UNCHANGED <<threadVars, decVars>>

\* Lines 221-244: parse, validate, dispatch.  A failing gate leaves through
\* the except clauses, an unrecognised event type returns at once.
LambdaValidate ==
    /\ pc = "validate"
    /\ LET e == Gate(event)
           h == HandlerFor(event.body.event_type)
       IN  IF e # NoExc
           THEN /\ exc' = e
                /\ pc' = "except"
                /\ UNCHANGED <<handler, response>>
           ELSE IF h = "none"
           THEN /\ response' = NotProcessedResponse(event.body.event_type)
                /\ pc' = "done"
                /\ UNCHANGED <<handler, exc>>
           ELSE /\ handler' = h
                /\ pc' = "process"
                /\ UNCHANGED <<exc, response>>
    /\ UNCHANGED <<event, parts, pending, todo, appends, upserts, sinkLog,
                   cached_google_sheets_service, builds>>
    /\ UNCHANGED <<threadVars, decVars>>

\* Lines 85-109, 117-147, 153-211: the handler composes its record, or raises.
Compose(out) ==
    /\ parts' = out.parts
    /\ pending' = out.pending
    /\ IF out.exc # NoExc
       THEN /\ exc' = out.exc
            /\ pc' = "except"
            /\ todo' = <<>>
       ELSE /\ exc' = exc
            /\ pc' = "sinks"
            /\ todo' = SinkPlan(handler)
    /\ UNCHANGED <<event, handler, appends, upserts, sinkLog, response,
                   cached_google_sheets_service, builds>>
    /\ UNCHANGED <<threadVars, decVars>>

ProcessSubscriptionCreated ==
    /\ pc = "process"
    /\ handler = "subscription"
    /\ Compose(process_subscription_created(event.body.resource))

ProcessSubscriptionPayment ==
    /\ pc = "process"
    /\ handler = "payment"
    /\ Compose(process_subscription_payment(event.body.resource))

ProcessOrderApproved ==
    /\ pc = "process"
    /\ handler = "order"
    /\ Compose(process_order_approved(event.body.resource))

\* A sink call that raised: logged, and the exception leaves the handler.
SinkRaised(sink, e) ==
    /\ sinkLog' = Append(sinkLog, [sink |-> sink, ok |-> FALSE])
    /\ exc' = e
    /\ pc' = "except"
    /\ todo' = <<>>
    /\ UNCHANGED <<appends, upserts>>

\* append_to_google_sheet(payment_info_gs), lines 33-51, with the call of
\* get_google_sheets_service it starts with.  The client is built when the
\* cache is empty; building it or executing the request may fail.
AppendToGoogleSheet ==
    /\ pc = "sinks"
    /\ todo # <<>>
    /\ Head(todo) = "append"
    /\ \/ /\ CacheHit(cached_google_sheets_service)
          /\ UNCHANGED <<cached_google_sheets_service, builds>>
          /\ \/ /\ appends' = Append(appends, pending.row)
                /\ sinkLog' = Append(sinkLog, [sink |-> "append", ok |-> TRUE])
                /\ todo' = Tail(todo)
                /\ UNCHANGED <<exc, pc, upserts>>
             \/ \E cause \in {"ValueError", "HttpError"} :
                    SinkRaised("append", AppendExc(cause))
       \/ /\ ~CacheHit(cached_google_sheets_service)
          /\ builds < MaxBuilds
          /\ builds' = builds + 1
          /\ cached_google_sheets_service' = builds + 1
          /\ \/ /\ appends' = Append(appends, pending.row)
                /\ sinkLog' = Append(sinkLog, [sink |-> "append", ok |-> TRUE])
                /\ todo' = Tail(todo)
                /\ UNCHANGED <<exc, pc, upserts>>
             \/ \E cause \in {"ValueError", "HttpError"} :
                    SinkRaised("append", AppendExc(cause))
       \/ /\ ~CacheHit(cached_google_sheets_service)
          /\ UNCHANGED <<cached_google_sheets_service, builds>>
          /\ SinkRaised("append", AppendExc("RuntimeError"))
    /\ UNCHANGED <<event, handler, parts, pending, response>>
    /\ UNCHANGED <<threadVars, decVars>>

\* save_record(key, data_type, record_data), lines 64-79: put_item writes the
\* item or raises a botocore error, which is no ValueError.
SaveRecord ==
    /\ pc = "sinks"
    /\ todo # <<>>
    /\ Head(todo) = "upsert"
    /\ \/ /\ upserts' = Append(upserts,
                               Item(pending.key, pending.data_type, pending.record_data))
          /\ sinkLog' = Append(sinkLog, [sink |-> "upsert", ok |-> TRUE])
          /\ todo' = Tail(todo)
          /\ UNCHANGED <<exc, pc, appends>>
       \/ SinkRaised("upsert", Exc("ClientError", "An error occurred calling PutItem"))
    /\ UNCHANGED <<event, handler, parts, pending, response,
                   cached_google_sheets_service, builds>>
    /\ UNCHANGED <<threadVars, decVars>>

\* Lines 246-249: the handler came back.
LambdaReturn ==
    /\ pc = "sinks"
    /\ todo = <<>>
    /\ response' = ProcessedResponse(event.body.event_type)
    /\ pc' = "done"
    /\ UNCHANGED <<event, handler, exc, parts, pending, todo, appends, upserts,
                   sinkLog, cached_google_sheets_service, builds>>
    /\ UNCHANGED <<threadVars, decVars>>

\* Lines 251-262: the except clauses turn the exception into a response.
LambdaExcept ==
    /\ pc = "except"
    /\ response' = ExceptResponse(exc)
    /\ pc' = "done"
    /\ UNCHANGED <<event, handler, exc, parts, pending, todo, appends, upserts,
                   sinkLog, cached_google_sheets_service, builds>>
    /\ UNCHANGED <<threadVars, decVars>>

\* The invocation is over; its request-scoped values are discarded and the
\* process, with its cached handle, waits for the next request.
Finish ==
    /\ pc = "done"
    /\ event' = NoEvent
    /\ pc' = "idle"
    /\ handler' = "none"
    /\ exc' = NoExc
    /\ parts' = EmptyMap
    /\ pending' = NoPending
    /\ todo' = <<>>
    /\ appends' = <<>>
    /\ upserts' = <<>>
    /\ sinkLog' = <<>>
    /\ response' = NoResponse
    /\ UNCHANGED <<cached_google_sheets_service, builds>>
    /\ UNCHANGED <<threadVars, decVars>>

Next ==
    \/ Receive
    \/ LambdaValidate
    \/ ProcessSubscriptionCreated
    \/ ProcessSubscriptionPayment
    \/ ProcessOrderApproved
    \/ AppendToGoogleSheet
    \/ SaveRecord
    \/ LambdaReturn
    \/ LambdaExcept
    \/ Finish

Spec == Init /\ [][Next]_vars


(***************************************************************************)
(* get_google_sheets_service called from several threads of one process.   *)
(* Each read and each write of the global is a step of its own; the        *)
(* construction (lines 19-24, right-hand side) is one step that either     *)
(* yields a new handle or raises.                                          *)
(***************************************************************************)
ThreadUnchanged == UNCHANGED <<invVars, decVars>>

\* A thread enters get_google_sheets_service.
Call(t) ==
    /\ tpc[t] = "idle"
    /\ tcalls[t] < MaxCalls
    /\ tcalls' = [tcalls EXCEPT ![t] = @ + 1]
    /\ tpc' = [tpc EXCEPT ![t] = "check"]
    /\ tret' = [tret EXCEPT ![t] = NoReturn]
    /\ tbuilt' = [tbuilt EXCEPT ![t] = NoHandle]
    /\ UNCHANGED <<cached_google_sheets_service, builds>>
    /\ ThreadUnchanged

\* Lines 15-16: return the cached handle if there is one.
CheckCache(t) ==
    /\ tpc[t] = "check"
    /\ IF CacheHit(cached_google_sheets_service)
       THEN /\ tret' = [tret EXCEPT ![t] =
                          [kind |-> "handle", handle |-> cached_google_sheets_service]]
            /\ tpc' = [tpc EXCEPT ![t] = "idle"]
       ELSE /\ tpc' = [tpc EXCEPT ![t] = "build"]
            /\ UNCHANGED tret
    /\ UNCHANGED <<cached_google_sheets_service, builds, tbuilt, tcalls>>
    /\ ThreadUnchanged

\* Lines 19-24: the parameter is fetched and build() returns a new handle.
BuildService(t) ==
    /\ tpc[t] = "build"
    /\ builds < MaxBuilds
    /\ builds' = builds + 1
    /\ tbuilt' = [tbuilt EXCEPT ![t] = builds + 1]
    /\ tpc' = [tpc EXCEPT ![t] = "store"]
    /\ UNCHANGED <<cached_google_sheets_service, tret, tcalls>>
    /\ ThreadUnchanged

\* Lines 26-31: fetching or building failed; RuntimeError leaves the function
\* and the global is not assigned.
BuildFails(t) ==
    /\ tpc[t] = "build"
    /\ tret' = [tret EXCEPT ![t] = [kind |-> "raised", handle |-> NoHandle]]
    /\ tpc' = [tpc EXCEPT ![t] = "idle"]
    /\ UNCHANGED <<cached_google_sheets_service, builds, tbuilt, tcalls>>
    /\ ThreadUnchanged

\* Line 24: the assignment to the global.
StoreService(t) ==
    /\ tpc[t] = "store"
    /\ cached_google_sheets_service' = tbuilt[t]
    /\ tpc' = [tpc EXCEPT ![t] = "load"]
    /\ UNCHANGED <<builds, tbuilt, tret, tcalls>>
    /\ ThreadUnchanged

\* Line 25: return cached_google_sheets_service reads the global again.
ReturnService(t) ==
    /\ tpc[t] = "load"
    /\ tret' = [tret EXCEPT ![t] =
                  [kind |-> "handle", handle |-> cached_google_sheets_service]]
    /\ tpc' = [tpc EXCEPT ![t] = "idle"]
    /\ UNCHANGED <<cached_google_sheets_service, builds, tbuilt, tcalls>>
    /\ ThreadUnchanged

NextService ==
    \E t \in Threads :
        \/ Call(t)
        \/ CheckCache(t)
        \/ BuildService(t)
        \/ BuildFails(t)
        \/ StoreService(t)
        \/ ReturnService(t)

SpecService == Init /\ [][NextService]_vars

(***************************************************************************)
(* The decoder on its own: any tag of up to MaxTagLen atoms is decoded the *)
(* way the handlers decode it.                                             *)
(***************************************************************************)
InitDecoder ==
    /\ InvocationInit
    /\ ProcessInit
    /\ tag \in SeqsUpTo(TagAtoms, MaxTagLen)
    /\ decoded = Undecoded

Decode ==
    /\ ~decoded.done
    /\ decoded' = [done |-> TRUE, map |-> DecodeCustomId(tag)]
    /\ UNCHANGED <<tag, invVars, threadVars, cached_google_sheets_service, builds>>

NextDecoder == Decode

SpecDecoder == InitDecoder /\ [][NextDecoder]_vars


(***************************************************************************)
(* Vocabulary of the properties, stated on the request and on what the     *)
(* invocation did, not on the operators above.                             *)
(***************************************************************************)
EventType == event.body.event_type
Resource == event.body.resource
Started == pc # "idle"
Returned == pc = "done"

\* The request satisfies the validation gate: accepted content type and a body
\* mapping with event_type and resource.
PassesGate ==
    /\ event.content_type = "application/json"
    /\ event.body_kind \in {"mapping", "json_mapping"}
    /\ EventType # Absent
    /\ event.body.has_resource

NoSinkInvoked == sinkLog = <<>> /\ appends = <<>> /\ upserts = <<>>

SinkFailed == \E i \in DOMAIN sinkLog : ~sinkLog[i].ok

IsNotProcessed(r) ==
    r.statusCode = 200 /\ r.key = "message" /\ r.text[Len(r.text)] = " not processed."

IsProcessed(r) ==
    r.statusCode = 200 /\ r.key = "message"
    /\ r.text[Len(r.text)] = " processed successfully."

\* The parsed body lacks event_type or resource.
ParsedBodyLacksField ==
    /\ event.body_kind # "json_invalid"
    /\ \/ event.body_kind = "json_scalar"
       \/ EventType = Absent
       \/ ~event.body.has_resource

AmountIncomplete == Resource.amount.total = Absent \/ Resource.amount.currency = Absent

UnitsMissing == ~Resource.purchase_units.present \/ Resource.purchase_units.units = <<>>

\* The early failures of a per-event handler that the design names.
HandlerFailsEarly ==
    /\ PassesGate
    /\ \/ EventType = "CHECKOUT.ORDER.APPROVED" /\ UnitsMissing
       \/ EventType = "PAYMENT.SALE.COMPLETED" /\ AmountIncomplete
       \/ EventType = "PAYMENT.SALE.COMPLETED"
            /\ (Resource.amount.total = "abc" \/ Resource.fee = "abc")

\* The source identifier of the event's shape.
SourceId ==
    IF EventType = "PAYMENT.SALE.COMPLETED" THEN Resource.billing_agreement_id
    ELSE Resource.id

\* The custom tag field of the event's shape.
CustomTag ==
    CASE EventType = "BILLING.SUBSCRIPTION.CREATED" -> Resource.custom_id
      [] EventType = "PAYMENT.SALE.COMPLETED" -> Resource.custom
      [] EventType = "CHECKOUT.ORDER.APPROVED" /\ ~UnitsMissing ->
            Resource.purchase_units.units[1].custom_id
      [] OTHER -> NoTag

TagAbsentOrEmpty == ~CustomTag.present \/ CustomTag.val = <<>>

\* The handler raised before it reached its first sink call.
RaisedBeforeSinks ==
    /\ handler # "none"
    /\ sinkLog = <<>>
    /\ \/ pc = "except"
       \/ pc = "done" /\ response.statusCode # 200

\* The handler composed its record.
Composed == handler # "none" /\ pc \in {"sinks", "except", "done"} /\ ~RaisedBeforeSinks

(***************************************************************************)
(* Reference decoding of section 4.2 of the design: split on '|', split    *)
(* each segment on its first ':' only.                                     *)
(***************************************************************************)
PartitionFirst(segment) ==
    LET i == IndexOf(segment, ":", 1)
    IN  IF i = 0 THEN <<>>
        ELSE <<SubSeq(segment, 1, i - 1), SubSeq(segment, i + 1, Len(segment))>>

RECURSIVE ReferenceSegments(_, _, _)
ReferenceSegments(segments, i, m) ==
    IF i > Len(segments) THEN m
    ELSE LET kv == PartitionFirst(segments[i])
         IN  ReferenceSegments(segments, i + 1,
                               IF kv = <<>> THEN m ELSE MapPut(m, kv[1], kv[2]))

ReferenceDecode(t) == ReferenceSegments(Split(t, "|"), 1, EmptyMap)

(***************************************************************************)
(* Properties.                                                             *)
(***************************************************************************)

\* C1: a request that passes the gate with an event type that is none of the
\* three recognised ones is answered 200 "not processed" straight from the
\* dispatch: no handler runs and neither sink is invoked.
C1_UnrecognisedNotProcessed ==
    (pc \notin {"idle", "validate"} /\ PassesGate /\ EventType \notin KnownEventTypes)
        => /\ Returned
           /\ IsNotProcessed(response)
           /\ handler = "none"
           /\ NoSinkInvoked

C1_Witness ==
    /\ Returned
    /\ PassesGate
    /\ EventType = "UNKNOWN.EVENT"
    /\ IsNotProcessed(response)
    /\ NoSinkInvoked

\* C2: a payment-sale request that passes the gate and whose resource lacks
\* amount.total or amount.currency is answered with status 400.
C2_IncompleteAmountIs400 ==
    (Returned /\ PassesGate /\ EventType = "PAYMENT.SALE.COMPLETED" /\ AmountIncomplete)
        => response.statusCode = 400

\* C3: a request whose parsed body lacks event_type or resource, or whose
\* content type is not application/json, is answered 400 with an error body;
\* no handler has run and no sink was written.
C3_GateFailureIs400 ==
    (Returned /\ (ParsedBodyLacksField \/ event.content_type # "application/json"))
        => /\ response.statusCode = 400
           /\ response.key = "error"
           /\ handler = "none"
           /\ NoSinkInvoked

\* C4: when a handler fails before its record is complete (order-approved
\* without a purchase unit, payment-sale without amount.total or
\* amount.currency, payment-sale with a total or fee that is no number), no
\* sink is invoked at any point of the invocation and the status is not 200.
C4_EarlyFailureWritesNothing ==
    (Started /\ HandlerFailsEarly)
        => /\ NoSinkInvoked
           /\ pc # "sinks"
           /\ Returned => response.statusCode \in {400, 500}

C4_Witness ==
    /\ Returned
    /\ PassesGate
    /\ EventType = "CHECKOUT.ORDER.APPROVED"
    /\ Resource.purchase_units.present
    /\ Resource.purchase_units.units = <<>>
    /\ response.statusCode = 400
    /\ NoSinkInvoked

\* C5: the key of every upsert is neither null nor empty, and it is the
\* sentinel Unknown_ID when the event carries no source identifier.
C5_UpsertKeyNeverEmpty ==
    \A i \in DOMAIN upserts :
        /\ upserts[i].id \notin {PyNone, ""}
        /\ SourceId = Absent => upserts[i].id = "Unknown_ID"

\* C6: the decoded map of every custom tag equals the reference decoding,
\* which splits each segment on its first ':' only.
C6_DecodeMatchesReference ==
    decoded.done => decoded.map = ReferenceDecode(tag)

\* C7: with the custom tag absent or empty, and nothing else wrong with the
\* event, each of the three handlers composes its record, and the record
\* carries the three sentinel defaults.
C7_AbsentTagGivesDefaults ==
    (pc \in {"sinks", "except", "done"} /\ PassesGate /\ EventType \in KnownEventTypes
     /\ ~HandlerFailsEarly /\ TagAbsentOrEmpty)
        => /\ Composed
           /\ pending.record_data.purpose = Str("Unknown_Purpose")
           /\ pending.record_data.user_name = Str("Unknown_Name")
           /\ pending.record_data.user_email = Str("Unknown_Email")

\* C8: a failed sink call is the last sink call of its invocation (it is not
\* retried and no other sink is called after it), and the invocation ends
\* with status 500 and an error body.
C8_SinkFailureIs500 ==
    /\ \A i \in DOMAIN sinkLog : ~sinkLog[i].ok => i = Len(sinkLog)
    /\ SinkFailed => pc \in {"except", "done"}
    /\ (SinkFailed /\ Returned) => (response.statusCode = 500 /\ response.key = "error")

C8_Witness ==
    /\ Returned
    /\ handler = "order"
    /\ sinkLog = <<[sink |-> "append", ok |-> FALSE]>>
    /\ response.statusCode = 500
    /\ response.key = "error"
    /\ upserts = <<>>

\* C9: the order-approved handler appends the row before it upserts the
\* record and attempts the upsert only after a successful append: a record
\* is never upserted without the row appended, and "processed successfully"
\* means exactly one append and exactly one upsert.
C9_AppendBeforeUpsert ==
    handler = "order"
        => /\ upserts # <<>> => appends # <<>>
           /\ \A i \in DOMAIN sinkLog :
                sinkLog[i].sink = "upsert"
                    => (i = 2 /\ sinkLog[1] = [sink |-> "append", ok |-> TRUE])
           /\ (Returned /\ IsProcessed(response))
                => (Len(appends) = 1 /\ Len(upserts) = 1)

\* The diverged state: row appended, upsert failed, response 500.
C9_Witness ==
    /\ Returned
    /\ handler = "order"
    /\ Len(appends) = 1
    /\ upserts = <<>>
    /\ sinkLog = <<[sink |-> "append", ok |-> TRUE], [sink |-> "upsert", ok |-> FALSE]>>
    /\ response.statusCode = 500

InFlight(t) == tpc[t] \in {"build", "store"}

\* Every value a call returned is a handle some build() constructed.
ReturnsConstructed ==
    \A t \in Threads :
        tret[t].kind = "handle"
            => (tret[t].handle # NoHandle /\ tret[t].handle \in 1..builds)

\* A failing construction does not assign the global, and a call that finds
\* the global empty goes on to construct.
FailureKeepsCache ==
    \A t \in Threads :
        /\ (tret[t].kind # "raised" /\ tret'[t].kind = "raised")
              => cached_google_sheets_service' = cached_google_sheets_service
        /\ (tpc[t] = "check" /\ tpc'[t] # "check"
            /\ cached_google_sheets_service = NoHandle)
              => tpc'[t] = "build"

\* With a handle cached and no construction in flight, no step changes the
\* cached handle or constructs another.
CachedIsStable ==
    (cached_google_sheets_service # NoHandle /\ \A t \in Threads : ~InFlight(t))
        => /\ cached_google_sheets_service' = cached_google_sheets_service
           /\ builds' = builds
           /\ \A t \in Threads : ~InFlight(t)'

\* C10: under any interleaving, a returning call yields a constructed handle,
\* a failed construction leaves the cache as it was, and a cached handle with
\* no construction in flight stays the cached handle for good.
C10_CachedHandle ==
    /\ []ReturnsConstructed
    /\ [][FailureKeepsCache]_vars
    /\ [][CachedIsStable]_vars

\* Two concurrent first calls both constructed, and both returned a handle.
C10_Witness ==
    /\ builds = 2
    /\ cached_google_sheets_service # NoHandle
    /\ \A t \in Threads : tpc[t] = "idle"
    /\ \E t \in Threads : tret[t].kind = "handle"
    /\ \E t \in Threads : tcalls[t] = 1 /\ tbuilt[t] = 2
    /\ \E t \in Threads : tcalls[t] = 1 /\ tbuilt[t] = 1

=============================================================================
